---- MODULE Spec2Model ----
(***************************************************************************)
(* State-machine model of server.cjs: the wallet registration, session     *)
(* token and score submission endpoints of the fentsports backend, with    *)
(* the two MongoDB collections (users, scores) as the persistent state.    *)
(*                                                                         *)
(* Node runs a handler synchronously up to its first await, so every       *)
(* handler is cut into steps at its awaits: the synchronous checks made on *)
(* receipt, the completion of User.findOne, the completion of save().      *)
(* Steps of different in-flight requests and the clock interleave freely.  *)
(*                                                                         *)
(* Library behaviour the handlers rely on (not code of this repository):   *)
(*   jsonwebtoken  sign(..., {expiresIn}) sets exp = iat + expiresIn;      *)
(*                 verify throws when the signature is not the secret's,   *)
(*                 the token is malformed, or now >= exp                   *)
(*   bs58          decode throws on a character outside the alphabet       *)
(*   tweetnacl     sign.detached.verify throws on a signature that is not  *)
(*                 64 bytes or a key that is not 32 bytes, else returns    *)
(*                 whether the signature is the key's over the message     *)
(*   mongoose      save() throws on a validation error and on a duplicate  *)
(*                 key of a unique index                                   *)
(* The store is assumed reachable: connection failures are not modelled.   *)
(* Time is in whole seconds; createdAt of a User is not modelled.          *)
(* Session tokens are not stored by the server, so the model keeps no set *)
(* of issued tokens: a token carrying the server's signature is one that   *)
(* POST /api/session returned at its iat.                                  *)
(***************************************************************************)
EXTENDS Integers, Sequences, FiniteSets, TLC

\* ------------------------------------------------------------------ bounds
MaxTime == 600
MaxScores == 2
\* Largest Score collection the queries are run on (SpecQueries).
MaxStored == 52
TickSteps == {600}
\* Handlers in flight: two registrations (slots 1, 2) and one submission (slot 3).
RegSlots == {1, 2}
ScoreSlots == {3}
Slots == RegSlots \cup ScoreSlots

\* ------------------------------------------------------- program constants
JWT_SECRET == "your_jwt_secret"
SESSION_DURATION == 10 * 60
NameMaxLength == 10
LeaderboardLimit == 50

\* ---------------------------------------------------------- value universe
\* Well-formed wallets: base-58 strings of 32-byte Ed25519 public keys.
Wallets == {"W1", "W2"}
\* "0OIl" has characters outside the base-58 alphabet; "2g" decodes to 1 byte.
MalformedWallet == "0OIl"
ShortWallet == "2g"
Games == {"snake", "tetris"}
Msgs == {"m1", "m2"}
Names == {"Ann", "Bob"}
LongName == "ElevenChars"
ScoreValues == {0, 42}

\* Who holds which private key.
Parties == {"alice", "mallory"}
KeysOf(p) == IF p = "alice" THEN {"W1"} ELSE {"W2"}

\* A base-58 signature string, by what it decodes to.
\*   ed25519   64 bytes, the signature of signer's private key over msg
\*             (signer "nobody": 64 bytes that no key of the model produced)
\*   short     well-formed base-58 of fewer than 64 bytes
\*   malformed not base-58
\*   empty     the empty string / an absent field
Sign(w, m) == [kind |-> "ed25519", signer |-> w, msg |-> m]
RandomSig == [kind |-> "ed25519", signer |-> "nobody", msg |-> ""]
ShortSig == [kind |-> "short", signer |-> "nobody", msg |-> ""]
MalformedSig == [kind |-> "malformed", signer |-> "nobody", msg |-> ""]
NoSig == [kind |-> "empty", signer |-> "nobody", msg |-> ""]

\* A session token string, by what it decodes to.
\*   jwt      a well-formed JWT with payload {wallet, game, iat, exp}, signed with key
\*   garbage  not a JWT
\*   empty    the empty string / an absent field
Jwt(w, g, t, k) ==
  [kind |-> "jwt", wallet |-> w, game |-> g, iat |-> t, exp |-> t + SESSION_DURATION,
   key |-> k]
GarbageToken ==
  [kind |-> "garbage", wallet |-> "", game |-> "", iat |-> 0, exp |-> 0, key |-> ""]
NoToken ==
  [kind |-> "empty", wallet |-> "", game |-> "", iat |-> 0, exp |-> 0, key |-> ""]

NoUser == [wallet |-> "", name |-> ""]

\* A request body. Fields an endpoint does not read are left at their
\* defaults; hasScore is FALSE when the body has no score field.
Request(op, w, g, hasScore, sc, tok, sig, m, n, skip) ==
  [op |-> op, wallet |-> w, game |-> g, hasScore |-> hasScore,
   score |-> sc, sessionToken |-> tok, signature |-> sig, message |-> m,
   name |-> n, skip |-> skip]
NoRequest ==
  Request("none", "", "", FALSE, 0, NoToken, NoSig, "", "", FALSE)

\* A response: the endpoint, the status, the error text, and the user or
\* sessionToken of the body when it has one.
Response(op, status, error, user, tok) ==
  [op |-> op, status |-> status, error |-> error, user |-> user, token |-> tok]

IdleSlot ==
  [pc |-> "idle", req |-> NoRequest, sender |-> "alice", verifiedAt |-> 0,
   userName |-> "", timestamp |-> 0]

\* ------------------------------------------------------------------- state
VARIABLES
  now,      \* the server clock, seconds
  users,    \* the User collection: sequence of [wallet, name]
  scores,   \* the Score collection: sequence of [wallet, game, score, name, timestamp]
  inflight, \* per slot, the handler running there, its position and its locals
  last,     \* the response sent most recently
  given,    \* the single request examined by SpecChecks (unused elsewhere)
  prov      \* history: for scores[i], who sent the request that created it, its
            \* token, signature and message, and when its token was verified

vars == <<now, users, scores, inflight, last, given, prov>>

\* ------------------------------------------------------ library functions
\* bs58.decode: throws on a character outside the alphabet.
Base58WalletOK(w) == w # MalformedWallet
Base58SigOK(sig) == sig.kind # "malformed"
\* Byte lengths of the decoded key and signature.
KeyBytes(w) == IF w \in Wallets THEN 32 ELSE IF w = ShortWallet THEN 1 ELSE 0
SigBytes(sig) == IF sig.kind = "ed25519" THEN 64 ELSE IF sig.kind = "short" THEN 1 ELSE 0

\* nacl.sign.detached.verify on well-sized arguments: TRUE exactly for the
\* signature made with pk's private key over exactly msg.
NaclVerify(msg, sig, pk) ==
  sig.kind = "ed25519" /\ sig.signer = pk /\ sig.msg = msg

\* The decode-and-verify sequence both handlers run: "throw" when bs58 or
\* tweetnacl throws, else "valid" or "invalid".
SignatureCheck(wallet, sig, msg) ==
  IF ~Base58SigOK(sig) \/ ~Base58WalletOK(wallet) THEN "throw"
  ELSE IF SigBytes(sig) # 64 \/ KeyBytes(wallet) # 32 THEN "throw"
  ELSE IF NaclVerify(msg, sig, wallet) THEN "valid"
  ELSE "invalid"

\* jwt.sign(payload, JWT_SECRET, {expiresIn: SESSION_DURATION}) at time t.
JwtSign(w, g, t) == Jwt(w, g, t, JWT_SECRET)

\* Variant: a token is still accepted at the instant it expires.
JwtVerifyInclusive(tok, t) ==
  tok.kind = "jwt" /\ tok.key = JWT_SECRET /\ t <= tok.exp

\* jwt.verify(token, JWT_SECRET) at time t does not throw.
JwtVerify(tok, t) ==
  tok.kind = "jwt" /\ tok.key = JWT_SECRET /\ t < tok.exp

\* User.findOne({wallet}): the stored document, or NoUser for null.
HasUser(us, w) == \E i \in 1..Len(us) : us[i].wallet = w
FindUser(us, w) ==
  IF HasUser(us, w)
  THEN us[CHOOSE i \in 1..Len(us) : us[i].wallet = w /\ \A j \in 1..(i-1) : us[j].wallet # w]
  ELSE NoUser

\* Variant: the wallet field carries no unique index.
SaveUserResultNoIndex(us, doc) ==
  IF Len(doc.name) > NameMaxLength THEN "validation" ELSE "ok"

\* user.save() of a new User: "validation" (name longer than maxlength),
\* "duplicate" (unique index on wallet), or "ok".
SaveUserResult(us, doc) ==
  IF Len(doc.name) > NameMaxLength THEN "validation"
  ELSE IF HasUser(us, doc.wallet) THEN "duplicate"
  ELSE "ok"

\* -------------------------------------------------------- handler checks
Pending == [status |-> 0, error |-> ""]
Fail(status, error) == [status |-> status, error |-> error]

\* Variant: the score is tested for falsiness like the other fields.
ScoreFieldsMissingFalsy(req) ==
  \/ req.wallet = ""
  \/ req.game = ""
  \/ ~req.hasScore \/ req.score = 0
  \/ req.sessionToken.kind = "empty"
  \/ req.signature.kind = "empty"
  \/ req.message = ""

\* POST /api/score, the field check.
ScoreFieldsMissing(req) ==
  \/ req.wallet = ""
  \/ req.game = ""
  \/ ~req.hasScore
  \/ req.sessionToken.kind = "empty"
  \/ req.signature.kind = "empty"
  \/ req.message = ""

\* Variant: only the game of the token is compared with the body.
SessionMatchesGameOnly(payload, req) ==
  payload.game = req.game

\* Variant: only the wallet of the token is compared with the body.
SessionMatchesWalletOnly(payload, req) ==
  payload.wallet = req.wallet

\* POST /api/score, the comparison of the token payload with the body.
SessionMatches(payload, req) ==
  payload.wallet = req.wallet /\ payload.game = req.game

\* Variant: the signature is verified before the token is compared with the body.
ScoreChecksSignatureFirst(req, t) ==
  IF ScoreFieldsMissing(req)
    THEN Fail(400, "Missing required fields")
  ELSE IF ~JwtVerify(req.sessionToken, t)
    THEN Fail(401, "Invalid or expired session token")
  ELSE IF SignatureCheck(req.wallet, req.signature, req.message) = "throw"
    THEN Fail(500, "Internal server error")
  ELSE IF SignatureCheck(req.wallet, req.signature, req.message) = "invalid"
    THEN Fail(401, "Invalid client signature")
  ELSE IF ~SessionMatches(req.sessionToken, req)
    THEN Fail(401, "Session token does not match the request")
  ELSE Pending

\* POST /api/score, the synchronous part: the response it sends, or Pending
\* when every check passed and the handler goes on to the User lookup.
ScoreChecks(req, t) ==
  IF ScoreFieldsMissing(req)
    THEN Fail(400, "Missing required fields")
  ELSE IF ~JwtVerify(req.sessionToken, t)
    THEN Fail(401, "Invalid or expired session token")
  ELSE IF ~SessionMatches(req.sessionToken, req)
    THEN Fail(401, "Session token does not match the request")
  ELSE IF SignatureCheck(req.wallet, req.signature, req.message) = "throw"
    THEN Fail(500, "Internal server error")
  ELSE IF SignatureCheck(req.wallet, req.signature, req.message) = "invalid"
    THEN Fail(401, "Invalid client signature")
  ELSE Pending

\* Variant: a signature that does not verify is not turned away.
RegisterChecksNoVerify(req) ==
  IF req.wallet = ""
    THEN Fail(400, "Missing wallet")
  ELSE IF req.skip
    THEN Pending
  ELSE IF req.signature.kind = "empty" \/ req.message = ""
    THEN Fail(400, "Missing required fields")
  ELSE IF SignatureCheck(req.wallet, req.signature, req.message) = "throw"
    THEN Fail(500, "Internal server error")
  ELSE Pending

\* POST /api/register, the synchronous part.
RegisterChecks(req) ==
  IF req.wallet = ""
    THEN Fail(400, "Missing wallet")
  ELSE IF req.skip
    THEN Pending
  ELSE IF req.signature.kind = "empty" \/ req.message = ""
    THEN Fail(400, "Missing required fields")
  ELSE IF SignatureCheck(req.wallet, req.signature, req.message) = "throw"
    THEN Fail(500, "Internal server error")
  ELSE IF SignatureCheck(req.wallet, req.signature, req.message) = "invalid"
    THEN Fail(400, "Invalid signature")
  ELSE Pending

\* Variant: the record never carries the user's name.
UserNameOfBlank(us, w) == ""

\* Variant: the lookup has no wallet filter and takes the first User stored.
UserNameOfAnyUser(us, w) ==
  IF Len(us) > 0 /\ us[1].name # "" THEN us[1].name ELSE ""

\* The name POST /api/score copies into the record.
UserNameOf(us, w) ==
  IF HasUser(us, w) /\ FindUser(us, w).name # "" THEN FindUser(us, w).name ELSE ""

\* ------------------------------------------------------------------ Init
Init ==
  /\ now = 0
  /\ users = <<>>
  /\ scores = <<>>
  /\ inflight = [s \in Slots |-> IdleSlot]
  /\ last = Response("none", 0, "", NoUser, NoToken)
  /\ given = NoRequest
  /\ prov = <<>>

\* --------------------------------------------------------------- actions
\* The clock advances.
Tick ==
  /\ \E d \in TickSteps : now + d <= MaxTime /\ now' = now + d
  /\ UNCHANGED <<users, scores, inflight, last, given, prov>>

\* Variant: a token is issued only to a registered wallet.
PostSessionRegisteredOnly(req) ==
  /\ req.op = "session"
  /\ last' = IF req.wallet = "" \/ req.game = "" \/ ~HasUser(users, req.wallet)
             THEN Response(req.op, 400, "Missing wallet or game", NoUser, NoToken)
             ELSE Response(req.op, 200, "", NoUser, JwtSign(req.wallet, req.game, now))
  /\ UNCHANGED <<now, users, scores, inflight, given, prov>>

\* POST /api/session: the whole handler.
PostSession(req) ==
  /\ req.op = "session"
  /\ last' = IF req.wallet = "" \/ req.game = ""
             THEN Response(req.op, 400, "Missing wallet or game", NoUser, NoToken)
             ELSE Response(req.op, 200, "", NoUser, JwtSign(req.wallet, req.game, now))
  /\ UNCHANGED <<now, users, scores, inflight, given, prov>>

\* POST /api/register, from receipt to the await of User.findOne.
RegisterRecv(s, req) ==
  /\ req.op = "register"
  /\ inflight[s].pc = "idle"
  /\ IF RegisterChecks(req) = Pending
     THEN /\ inflight' = [inflight EXCEPT ![s] = [IdleSlot EXCEPT !.pc = "r_find", !.req = req]]
          /\ last' = last
     ELSE /\ last' = Response(req.op, RegisterChecks(req).status, RegisterChecks(req).error,
                              NoUser, NoToken)
          /\ inflight' = inflight
  /\ UNCHANGED <<now, users, scores, given, prov>>

\* Variant: an existing User takes the name of the new request (an upsert).
RegisterFindUpsert(s) ==
  /\ inflight[s].pc = "r_find"
  /\ IF HasUser(users, inflight[s].req.wallet)
     THEN /\ users' = [i \in 1..Len(users) |->
                         IF users[i].wallet = inflight[s].req.wallet
                         THEN [users[i] EXCEPT !.name = inflight[s].req.name]
                         ELSE users[i]]
          /\ last' = Response(inflight[s].req.op, 200, "",
                              [wallet |-> inflight[s].req.wallet,
                               name |-> inflight[s].req.name], NoToken)
          /\ inflight' = [inflight EXCEPT ![s] = IdleSlot]
     ELSE /\ inflight' = [inflight EXCEPT ![s].pc = "r_save"]
          /\ last' = last
          /\ users' = users
  /\ UNCHANGED <<now, scores, given, prov>>

\* POST /api/register, User.findOne resolved: answer with the existing User,
\* or build the new one and await its save.
RegisterFind(s) ==
  /\ inflight[s].pc = "r_find"
  /\ IF HasUser(users, inflight[s].req.wallet)
     THEN /\ last' = Response(inflight[s].req.op, 200, "",
                              FindUser(users, inflight[s].req.wallet), NoToken)
          /\ inflight' = [inflight EXCEPT ![s] = IdleSlot]
     ELSE /\ inflight' = [inflight EXCEPT ![s].pc = "r_save"]
          /\ last' = last
  /\ UNCHANGED <<now, users, scores, given, prov>>

\* Variant: the document is stored before validation rejects it.
RegisterSavePartial(s) ==
  /\ inflight[s].pc = "r_save"
  /\ LET req == inflight[s].req
         doc == [wallet |-> req.wallet, name |-> req.name]
     IN  /\ users' = IF SaveUserResult(users, doc) = "duplicate" THEN users
                     ELSE Append(users, doc)
         /\ last' = IF SaveUserResult(users, doc) = "ok"
                    THEN Response(req.op, 200, "", doc, NoToken)
                    ELSE Response(req.op, 500, "Internal server error", NoUser, NoToken)
  /\ inflight' = [inflight EXCEPT ![s] = IdleSlot]
  /\ UNCHANGED <<now, scores, given, prov>>

\* POST /api/register, user.save() settled.
RegisterSave(s) ==
  /\ inflight[s].pc = "r_save"
  /\ LET req == inflight[s].req
         doc == [wallet |-> req.wallet, name |-> req.name]
     IN  IF SaveUserResult(users, doc) = "ok"
         THEN /\ users' = Append(users, doc)
              /\ last' = Response(req.op, 200, "", doc, NoToken)
         ELSE /\ users' = users
              /\ last' = Response(req.op, 500, "Internal server error", NoUser, NoToken)
  /\ inflight' = [inflight EXCEPT ![s] = IdleSlot]
  /\ UNCHANGED <<now, scores, given, prov>>

\* Score handlers that passed their checks and have not written yet.
ScoresUnderway == Cardinality({s \in Slots : inflight[s].pc \in {"s_find", "s_save"}})

\* POST /api/score, from receipt to the await of User.findOne.
ScoreRecv(s, p, req) ==
  /\ req.op = "score"
  /\ inflight[s].pc = "idle"
  /\ IF ScoreChecks(req, now) = Pending
     THEN /\ Len(scores) + ScoresUnderway < MaxScores
          /\ inflight' = [inflight EXCEPT ![s] =
                            [IdleSlot EXCEPT !.pc = "s_find", !.req = req, !.sender = p,
                                             !.verifiedAt = now]]
          /\ last' = last
     ELSE /\ last' = Response(req.op, ScoreChecks(req, now).status, ScoreChecks(req, now).error,
                              NoUser, NoToken)
          /\ inflight' = inflight
  /\ UNCHANGED <<now, users, scores, given, prov>>

\* Variant: the timestamp default is evaluated once, when the schema is defined.
ScoreFindStartupStamp(s) ==
  /\ inflight[s].pc = "s_find"
  /\ inflight' = [inflight EXCEPT ![s].pc = "s_save",
                                  ![s].userName = UserNameOf(users, inflight[s].req.wallet),
                                  ![s].timestamp = 0]
  /\ UNCHANGED <<now, users, scores, last, given, prov>>

\* POST /api/score, User.findOne resolved: the name is read and the Score
\* document is constructed (its timestamp defaults to Date.now).
ScoreFind(s) ==
  /\ inflight[s].pc = "s_find"
  /\ inflight' = [inflight EXCEPT ![s].pc = "s_save",
                                  ![s].userName = UserNameOf(users, inflight[s].req.wallet),
                                  ![s].timestamp = now]
  /\ UNCHANGED <<now, users, scores, last, given, prov>>

\* The document newScore.save() writes.
NewScore(slot) ==
  [wallet |-> slot.req.wallet, game |-> slot.req.game, score |-> slot.req.score,
   name |-> slot.userName, timestamp |-> slot.timestamp]

\* Variant: one record per (wallet, game), kept only when it is the best score.
ScoreSaveBest(s) ==
  /\ inflight[s].pc = "s_save"
  /\ LET new == NewScore(inflight[s])
         same(r) == r.wallet = new.wallet /\ r.game = new.game
         keep == SelectSeq(scores, LAMBDA r : ~same(r) \/ r.score >= new.score)
         kept == {i \in 1..Len(scores) : ~same(scores[i]) \/ scores[i].score >= new.score}
         beaten == \E i \in 1..Len(scores) : same(scores[i]) /\ scores[i].score >= new.score
         entry == [sender |-> inflight[s].sender,
                   token |-> inflight[s].req.sessionToken,
                   signature |-> inflight[s].req.signature,
                   message |-> inflight[s].req.message,
                   verifiedAt |-> inflight[s].verifiedAt]
         keepProv == [j \in 1..Cardinality(kept) |->
                        prov[CHOOSE i \in kept : Cardinality({k \in kept : k <= i}) = j]]
     IN  /\ scores' = IF beaten THEN keep ELSE Append(keep, new)
         /\ prov' = IF beaten THEN keepProv ELSE Append(keepProv, entry)
  /\ last' = Response(inflight[s].req.op, 200, "", NoUser, NoToken)
  /\ inflight' = [inflight EXCEPT ![s] = IdleSlot]
  /\ UNCHANGED <<now, users, given>>

\* POST /api/score, newScore.save() resolved.
ScoreSave(s) ==
  /\ inflight[s].pc = "s_save"
  /\ scores' = Append(scores, NewScore(inflight[s]))
  /\ prov' = Append(prov, [sender |-> inflight[s].sender,
                           token |-> inflight[s].req.sessionToken,
                           signature |-> inflight[s].req.signature,
                           message |-> inflight[s].req.message,
                           verifiedAt |-> inflight[s].verifiedAt])
  /\ last' = Response(inflight[s].req.op, 200, "", NoUser, NoToken)
  /\ inflight' = [inflight EXCEPT ![s] = IdleSlot]
  /\ UNCHANGED <<now, users, given>>

\* ---------------------------------------------------- requests clients send
SessionRequest(w, g) ==
  Request("session", w, g, FALSE, 0, NoToken, NoSig, "", "", FALSE)
RegisterRequest(w, sig, m, n, skip) ==
  Request("register", w, "", FALSE, 0, NoToken, sig, m, n, skip)
ScoreRequest(w, g, hasScore, sc, tok, sig, m) ==
  Request("score", w, g, hasScore, sc, tok, sig, m, "", FALSE)

\* The instants the clock of Spec takes.
Times == {t \in 0..MaxTime : \E k \in 0..MaxTime : \E d \in TickSteps : t = k * d}

\* Tokens POST /api/session has returned by now for (w, g).
TokensIssued(w, g) == {JwtSign(w, g, t) : t \in {u \in Times : u <= now}}

\* Signatures a party can put in a request: those it makes with its own keys
\* over "m1", those it has seen in an accepted submission, and bytes it makes up.
SigsAvailable(p) ==
  {Sign(w, "m1") : w \in KeysOf(p)}
    \cup {prov[i].signature : i \in 1..Len(prov)}
    \cup {RandomSig}

\* Spec and SpecNames play one game; SpecChecks has both.
ProtocolGames == {"snake"}

\* Spec: sessions, submissions by both parties and the clock; no wallet is
\* registered.
SessionRequests == {SessionRequest(w, g) : w \in Wallets, g \in ProtocolGames}

\* Submissions by p: any wallet and score, a token issued for any wallet, and
\* any signature p can produce, over "m1".
ScoreRequestsOf(p) ==
  {ScoreRequest(w, g, TRUE, sc, tok, sig, "m1") :
     w \in Wallets, g \in ProtocolGames, sc \in ScoreValues,
     tok \in UNION {TokensIssued(tw, tg) : tw \in Wallets, tg \in ProtocolGames},
     sig \in SigsAvailable(p)}

Next ==
  \/ Tick
  \/ \E req \in SessionRequests : PostSession(req)
  \/ \E s \in ScoreSlots, p \in Parties : \E req \in ScoreRequestsOf(p) : ScoreRecv(s, p, req)
  \/ \E s \in ScoreSlots : ScoreFind(s)
  \/ \E s \in ScoreSlots : ScoreSave(s)

Spec == Init /\ [][Next]_vars

\* SpecNames: registrations with the skip flag interleaved with submissions
\* of the wallets' owners, at one instant.
SkipRegisterRequests ==
  {RegisterRequest(w, NoSig, "", n, TRUE) : w \in Wallets, n \in Names}

OwnerScoreRequests ==
  {ScoreRequest(w, g, TRUE, sc, JwtSign(w, g, 0), Sign(w, "m1"), "m1") :
     w \in Wallets, g \in ProtocolGames, sc \in ScoreValues}

NextNames ==
  \/ \E req \in SkipRegisterRequests : RegisterRecv(1, req)
  \/ RegisterFind(1)
  \/ RegisterSave(1)
  \/ \E p \in Parties : \E req \in OwnerScoreRequests :
        req.wallet \in KeysOf(p) /\ ScoreRecv(3, p, req)
  \/ ScoreFind(3)
  \/ ScoreSave(3)

SpecNames == Init /\ [][NextNames]_vars

\* SpecRegister: registrations only, two in flight, with and without proof.
ProofRegisterRequests ==
  {RegisterRequest(w, NoSig, "", n, TRUE) : w \in Wallets, n \in Names}
    \cup {RegisterRequest(w, Sign(signer, "m1"), "m1", n, FALSE) :
            w \in Wallets, signer \in Wallets, n \in Names}

NextRegister ==
  \/ \E s \in RegSlots, req \in ProofRegisterRequests : RegisterRecv(s, req)
  \/ \E s \in RegSlots : RegisterFind(s)
  \/ \E s \in RegSlots : RegisterSave(s)

SpecRegister == Init /\ [][NextRegister]_vars

\* SpecChecks: one request, drawn with the clock and the stored users from
\* the sets below, is handled from receipt to response.
CheckTimes == {0, 599, 600, 601}
CheckStores == {<<>>, <<[wallet |-> "W1", name |-> "Ann"]>>}
CheckWallets == {""} \cup Wallets \cup {MalformedWallet, ShortWallet}
CheckTokens ==
  {JwtSign(w, g, 0) : w \in Wallets \cup {MalformedWallet}, g \in Games}
    \cup {Jwt("W1", "snake", 0, "guess"), GarbageToken, NoToken}
CheckSigs ==
  {Sign(w, "m1") : w \in Wallets} \cup {RandomSig, ShortSig, MalformedSig, NoSig}

CheckScoreRequests ==
  {ScoreRequest(w, g, hs[1], hs[2], tok, sig, m) :
     w \in CheckWallets, g \in {""} \cup Games,
     hs \in {<<FALSE, 0>>, <<TRUE, 0>>, <<TRUE, 42>>},
     tok \in CheckTokens, sig \in CheckSigs, m \in {""} \cup Msgs}

CheckRegisterRequests ==
  {RegisterRequest(w, sig, m, n, skip) :
     w \in CheckWallets, sig \in CheckSigs, m \in {""} \cup Msgs,
     n \in {"", "Bob", LongName}, skip \in BOOLEAN}

InitChecks ==
  /\ now \in CheckTimes
  /\ users \in CheckStores
  /\ scores = <<>>
  /\ inflight = [s \in Slots |-> IdleSlot]
  /\ last = Response("none", 0, "", NoUser, NoToken)
  /\ given \in CheckScoreRequests \cup CheckRegisterRequests
  /\ prov = <<>>

NextChecks ==
  \/ last.op = "none" /\ \E p \in Parties : ScoreRecv(3, p, given)
  \/ ScoreFind(3)
  \/ ScoreSave(3)
  \/ last.op = "none" /\ RegisterRecv(1, given)
  \/ RegisterFind(1)
  \/ RegisterSave(1)

SpecChecks == InitChecks /\ [][NextChecks]_vars

\* SpecSession: one session request, drawn with the clock and the stored
\* users, is answered; the token it returned is then presented in
\* submissions of its wallet, for either game, while the clock advances.
CheckSessionRequests ==
  {SessionRequest(w, g) : w \in CheckWallets, g \in {""} \cup Games}

TokenScoreRequests ==
  {ScoreRequest(given.wallet, g, TRUE, sc, last.token, Sign(given.wallet, "m1"), "m1") :
     g \in Games, sc \in ScoreValues}

InitSession ==
  /\ now \in CheckTimes
  /\ users \in CheckStores
  /\ scores = <<>>
  /\ inflight = [s \in Slots |-> IdleSlot]
  /\ last = Response("none", 0, "", NoUser, NoToken)
  /\ given \in CheckSessionRequests
  /\ prov = <<>>

NextSession ==
  \/ last.op = "none" /\ PostSession(given)
  \/ Tick
  \/ /\ last.op = "session" /\ last.status = 200
     /\ \E p \in Parties : \E req \in TokenScoreRequests : ScoreRecv(3, p, req)
  \/ ScoreFind(3)
  \/ ScoreSave(3)

SpecSession == InitSession /\ [][NextSession]_vars

\* ---------------------------------------------------------------- queries
\* null, as Score.findOne returns it.
NoScore == [wallet |-> "", game |-> "", score |-> 0, name |-> "", timestamp |-> 0]

\* The response of a query: the scores array or the best record of its body.
QueryResponse(op, status, error, scs, best) ==
  [op |-> op, status |-> status, error |-> error, user |-> NoUser, token |-> NoToken,
   scores |-> scs, best |-> best]

Min(a, b) == IF a <= b THEN a ELSE b

\* sort({score: -1}): document i comes before document j. Documents of equal
\* score come in an order the store does not promise; tie is that order
\* ("natural": as inserted, "reverse": the opposite).
SortsBefore(scs, i, j, tie) ==
  \/ scs[i].score > scs[j].score
  \/ scs[i].score = scs[j].score /\ (IF tie = "natural" THEN i < j ELSE i > j)

\* The position of document i among the documents M in that order.
SortPosition(scs, M, i, tie) ==
  1 + Cardinality({j \in M : SortsBefore(scs, j, i, tie)})

\* Variant: the scores are sorted ascending.
LeaderboardAscending(scs, g, tie) ==
  LET M == {i \in 1..Len(scs) : scs[i].game = g}
  IN  [p \in 1..Min(Cardinality(M), LeaderboardLimit) |->
         scs[CHOOSE i \in M : SortPosition(scs, M, i, tie) = Cardinality(M) + 1 - p]]

\* Score.find({game}).sort({score: -1}).limit(50)
Leaderboard(scs, g, tie) ==
  LET M == {i \in 1..Len(scs) : scs[i].game = g}
  IN  [p \in 1..Min(Cardinality(M), LeaderboardLimit) |->
         scs[CHOOSE i \in M : SortPosition(scs, M, i, tie) = p]]

\* Score.findOne({wallet, game}).sort({score: -1})
BestScore(scs, w, g, tie) ==
  LET M == {i \in 1..Len(scs) : scs[i].wallet = w /\ scs[i].game = g}
  IN  IF M = {} THEN NoScore
      ELSE scs[CHOOSE i \in M : SortPosition(scs, M, i, tie) = 1]

\* GET /api/leaderboard
GetLeaderboard(req) ==
  /\ req.op = "leaderboard"
  /\ IF req.game = ""
     THEN last' = QueryResponse(req.op, 400, "Missing game query parameter", <<>>, NoScore)
     ELSE \E tie \in {"natural", "reverse"} :
            last' = QueryResponse(req.op, 200, "", Leaderboard(scores, req.game, tie), NoScore)
  /\ UNCHANGED <<now, users, scores, inflight, given, prov>>

\* GET /api/bestscore
GetBestScore(req) ==
  /\ req.op = "bestscore"
  /\ IF req.wallet = "" \/ req.game = ""
     THEN last' = QueryResponse(req.op, 400, "Missing wallet or game query parameter",
                                <<>>, NoScore)
     ELSE \E tie \in {"natural", "reverse"} :
            last' = QueryResponse(req.op, 200, "", <<>>,
                                  BestScore(scores, req.wallet, req.game, tie))
  /\ UNCHANGED <<now, users, scores, inflight, given, prov>>

QueryRequest(op, w, g) ==
  Request(op, w, g, FALSE, 0, NoToken, NoSig, "", "", FALSE)

\* SpecQueries: one query, drawn with the stored scores, is answered. The
\* stores have up to MaxStored records, all of game "snake" but the second,
\* of both wallets, with scores rising, falling, or of two values only (so
\* that many records tie and equal records are stored more than once).
StoreSizes == {0, 1, 2, 3} \cup {n \in (LeaderboardLimit - 1)..MaxStored : TRUE}
ScorePatterns == {"rising", "falling", "two-valued"}

StoredScores(n, pat) ==
  [i \in 1..n |->
     [wallet |-> IF i % 3 = 0 THEN "W2" ELSE "W1",
      game |-> IF i = 2 THEN "tetris" ELSE "snake",
      score |-> IF pat = "rising" THEN i
                ELSE IF pat = "falling" THEN n - i
                ELSE (i % 2) * 42,
      name |-> "", timestamp |-> 0]]

QueryRequests ==
  {QueryRequest("leaderboard", "", g) : g \in {""} \cup Games}
    \cup {QueryRequest("bestscore", w, g) : w \in {""} \cup Wallets, g \in {""} \cup Games}

InitQueries ==
  /\ now = 0
  /\ users = <<>>
  /\ scores \in {StoredScores(n, pat) : n \in StoreSizes, pat \in ScorePatterns}
  /\ inflight = [s \in Slots |-> IdleSlot]
  /\ last = Response("none", 0, "", NoUser, NoToken)
  /\ given \in QueryRequests
  /\ prov = <<>>

NextQueries ==
  \/ last.op = "none" /\ GetLeaderboard(given)
  \/ last.op = "none" /\ GetBestScore(given)

SpecQueries == InitQueries /\ [][NextQueries]_vars

\* ================================================================ claims
\* A token that carries the server's signature.
ServerToken(tok) == tok.kind = "jwt" /\ tok.key = JWT_SECRET

\* ---------------------------------------------------------------------
\* C1: every stored ScoreRecord (w, g) was created by a submission that
\* presented a token the server issued for exactly (w, g), not expired when
\* it was verified, and a signature of w's key over the signatureMessage of
\* that same submission.
C1_RecordsAuthorized ==
  /\ Len(prov) = Len(scores)
  /\ \A i \in 1..Len(scores) :
       /\ ServerToken(prov[i].token)
       /\ prov[i].token.wallet = scores[i].wallet
       /\ prov[i].token.game = scores[i].game
       /\ prov[i].token.iat <= prov[i].verifiedAt
       /\ prov[i].verifiedAt < prov[i].token.iat + SESSION_DURATION
       /\ prov[i].signature.kind = "ed25519"
       /\ prov[i].signature.signer = scores[i].wallet
       /\ prov[i].signature.msg = prov[i].message

\* Records of both wallets are stored.
C1_Witness ==
  /\ Len(scores) = 2
  /\ scores[1].wallet # scores[2].wallet

\* ---------------------------------------------------------------------
\* C2: no ScoreRecord for a wallet W is ever stored as the result of a
\* request sent by a party that does not hold W's private key.
C2_OnlyKeyHolderSubmits ==
  \A i \in 1..Len(scores) :
    i <= Len(prov) => scores[i].wallet \in KeysOf(prov[i].sender)

\* ---------------------------------------------------------------------
\* Every field of the submission other than the token's age is valid.
OtherwiseValid(req) ==
  /\ req.wallet \in Wallets /\ req.game # "" /\ req.hasScore /\ req.message # ""
  /\ ServerToken(req.sessionToken)
  /\ req.sessionToken.wallet = req.wallet /\ req.sessionToken.game = req.game
  /\ req.signature = Sign(req.wallet, req.message)

\* The single submission of SpecChecks got past its checks.
Accepted == inflight[3].pc # "idle" \/ scores # <<>>
\* The single submission of SpecChecks has been answered.
Answered == last.op = "score"

\* C3: a token is accepted only at a time strictly earlier than its
\* issuedAt + 600 s; at that instant or later a submission whose other
\* fields are all valid is answered 401 and creates no record.
C3_ExpiryExclusive ==
  given.op = "score" /\ given.sessionToken.kind = "jwt" =>
    /\ Accepted => now < given.sessionToken.iat + 600
    /\ (Answered /\ OtherwiseValid(given) /\ now >= given.sessionToken.iat + 600) =>
          last.status = 401 /\ scores = <<>> /\ inflight[3].pc = "idle"

\* A valid submission presented at exactly expiresAt has been refused.
C3_Witness ==
  /\ Answered /\ OtherwiseValid(given)
  /\ now = given.sessionToken.exp
  /\ last.status = 401

\* ---------------------------------------------------------------------
\* The body names another wallet or game than the token.
Mismatch(req) ==
  req.sessionToken.wallet # req.wallet \/ req.sessionToken.game # req.game

\* C4 as stated: every submission that presents a token issued for (w1, g1)
\* with another wallet or game is answered SessionMismatch (401) and creates
\* no record.
C4_AlwaysSessionMismatch ==
  (given.op = "score" /\ ServerToken(given.sessionToken) /\ Mismatch(given)) =>
    /\ ~Accepted
    /\ Answered =>
         last.status = 401 /\ last.error = "Session token does not match the request"

\* C4 as amended: it is answered SessionMismatch when all six fields are
\* present and the token has not expired; in every case no record is created.
C4_SessionMismatch ==
  (given.op = "score" /\ ServerToken(given.sessionToken) /\ Mismatch(given)) =>
    /\ ~Accepted
    /\ (Answered /\ given.wallet # "" /\ given.game # "" /\ given.hasScore
          /\ given.signature.kind # "empty" /\ given.message # ""
          /\ now < given.sessionToken.exp) =>
         last.status = 401 /\ last.error = "Session token does not match the request"

\* A live token for ("W1", "snake") was presented with game "tetris" and W1's
\* valid signature, and refused as a mismatch.
C4_Witness ==
  /\ Answered
  /\ given.sessionToken = JwtSign("W1", "snake", 0) /\ now < 600
  /\ given.wallet = "W1" /\ given.game = "tetris"
  /\ given.signature = Sign("W1", "m1") /\ given.message = "m1"
  /\ last.error = "Session token does not match the request"

\* ---------------------------------------------------------------------
\* C5: the Users collection holds at most one User per wallet.
C5_OneUserPerWallet ==
  \A i, j \in 1..Len(users) : users[i].wallet = users[j].wallet => i = j

\* Two registrations of one wallet overlapped: one is stored, the other is
\* about to save.
C5_Witness ==
  \E s \in RegSlots :
    /\ inflight[s].pc = "r_save"
    /\ HasUser(users, inflight[s].req.wallet)

\* ---------------------------------------------------------------------
\* The name stored for wallet w, "" when none is stored.
StoredName(us, w) ==
  IF \E i \in 1..Len(us) : us[i].wallet = w
  THEN us[CHOOSE i \in 1..Len(us) : us[i].wallet = w].name
  ELSE ""

\* C6: a register call for a wallet that already has a User is answered with
\* success and that User, creates nothing, and leaves the stored name as it
\* was, whatever name the call carries; no stored User ever changes.
C6_RegisterIdempotent ==
  [][/\ Len(users') >= Len(users)
     /\ \A i \in 1..Len(users) : users'[i] = users[i]
     /\ \A s \in RegSlots :
          (/\ inflight[s].pc = "r_find" /\ inflight'[s].pc # "r_find"
           /\ \E i \in 1..Len(users) : users[i].wallet = inflight[s].req.wallet) =>
             /\ users' = users
             /\ last'.status = 200
             /\ last'.user.wallet = inflight[s].req.wallet
             /\ last'.user.name = StoredName(users, inflight[s].req.wallet)]_vars

\* A register call with another name than the stored one has passed its
\* checks for a registered wallet.
C6_Witness ==
  \E s \in RegSlots :
    /\ inflight[s].pc = "r_find"
    /\ \E i \in 1..Len(users) :
         /\ users[i].wallet = inflight[s].req.wallet
         /\ users[i].name # inflight[s].req.name

\* ---------------------------------------------------------------------
\* C7: every register request that reaches its save, also one that looked
\* the wallet up before an overlapping request saved it, is answered with
\* success and the one User stored for its wallet.
C7_OverlappingRegistersSucceed ==
  [][\A s \in RegSlots :
       (inflight[s].pc = "r_save" /\ inflight'[s].pc = "idle") =>
          /\ last'.status = 200
          /\ Cardinality({i \in 1..Len(users') :
                            users'[i].wallet = inflight[s].req.wallet}) = 1
          /\ \E i \in 1..Len(users') : last'.user = users'[i]]_vars

\* ---------------------------------------------------------------------
\* A submission with all fields valid and a token that has not expired at t.
ValidSubmission(req, t) ==
  OtherwiseValid(req) /\ t < req.sessionToken.iat + SESSION_DURATION

\* C8: a submission with a valid unexpired token and a valid signature passes
\* the checks, and then adds exactly one record {wallet, game, score, name},
\* name being the name the lookup found stored for the wallet or "" when it
\* found none; it changes no earlier record and no User.
C8_SubmitAddsOneRecord ==
  /\ [](\A p \in Parties : \A req \in ScoreRequestsOf(p) :
          ValidSubmission(req, now) => ScoreChecks(req, now) = Pending)
  /\ [][\A s \in ScoreSlots :
          /\ (inflight[s].pc = "idle" /\ inflight'[s].pc = "s_find") =>
               scores' = scores /\ users' = users
          /\ (inflight[s].pc = "s_find" /\ inflight'[s].pc = "s_save") =>
               /\ scores' = scores /\ users' = users
               /\ inflight'[s].userName = StoredName(users, inflight[s].req.wallet)
          /\ (inflight[s].pc = "s_save" /\ inflight'[s].pc = "idle") =>
               /\ users' = users
               /\ Len(scores') = Len(scores) + 1
               /\ \A i \in 1..Len(scores) : scores'[i] = scores[i]
               /\ scores'[Len(scores')].wallet = inflight[s].req.wallet
               /\ scores'[Len(scores')].game = inflight[s].req.game
               /\ scores'[Len(scores')].score = inflight[s].req.score
               /\ scores'[Len(scores')].name = inflight[s].userName
               /\ last'.status = 200]_vars

\* A record of an unregistered wallet and a record carrying a stored name.
C8_Witness ==
  /\ Len(scores) = 2
  /\ scores[1].name = ""
  /\ scores[2].name = "Ann"
  /\ \E i \in 1..Len(users) :
       users[i].wallet = scores[2].wallet /\ users[i].name = "Ann"

\* ---------------------------------------------------------------------
\* C9: a submission that presents again the token, signature and message of
\* a stored record, with any score, passes the checks while the token has not
\* expired, and every accepted submission appends one record: none is
\* dropped as a duplicate and none replaces a lower score.
C9_TokenReuse ==
  /\ [](\A i \in 1..Len(prov) : \A sc \in ScoreValues :
          now < prov[i].token.exp =>
            ScoreChecks(ScoreRequest(scores[i].wallet, scores[i].game, TRUE, sc,
                                     prov[i].token, prov[i].signature,
                                     prov[i].message), now) = Pending)
  /\ [][\A s \in ScoreSlots :
          (inflight[s].pc = "s_save" /\ inflight'[s].pc = "idle") =>
             /\ Len(scores') = Len(scores) + 1
             /\ \A i \in 1..Len(scores) : scores'[i] = scores[i]
             /\ scores'[Len(scores')].score = inflight[s].req.score
             /\ last'.status = 200]_vars

\* Two records made with the same token and signature, the later one with
\* the lower score.
C9_Witness ==
  /\ Len(scores) = 2 /\ Len(prov) = 2
  /\ prov[1].token = prov[2].token
  /\ prov[1].signature = prov[2].signature
  /\ prov[1].message = prov[2].message
  /\ scores[1].wallet = scores[2].wallet
  /\ scores[1].score > scores[2].score

\* ---------------------------------------------------------------------
\* The checks of POST /api/score, each on its own.
FieldMissing(req) ==
  \/ req.wallet = "" \/ req.game = "" \/ ~req.hasScore \/ req.message = ""
  \/ req.sessionToken.kind = "empty" \/ req.signature.kind = "empty"
TokenRefused(req, t) == ~(ServerToken(req.sessionToken) /\ t < req.sessionToken.exp)
SignatureWrong(req) ==
  /\ req.signature.kind = "ed25519" /\ req.wallet \in Wallets
  /\ req.signature # Sign(req.wallet, req.message)

\* C10: a submission is answered with the error of the first check it fails,
\* in the order missing fields, token, wallet/game match, signature; after a
\* failed check neither the User lookup nor the write runs.
C10_FirstFailureOnly ==
  given.op = "score" =>
    /\ (FieldMissing(given) \/ TokenRefused(given, now) \/ Mismatch(given)
          \/ SignatureWrong(given)) => ~Accepted
    /\ Answered =>
         /\ FieldMissing(given) =>
              last.status = 400 /\ last.error = "Missing required fields"
         /\ (~FieldMissing(given) /\ TokenRefused(given, now)) =>
              last.status = 401 /\ last.error = "Invalid or expired session token"
         /\ (~FieldMissing(given) /\ ~TokenRefused(given, now) /\ Mismatch(given)) =>
              last.status = 401 /\ last.error = "Session token does not match the request"
         /\ (~FieldMissing(given) /\ ~TokenRefused(given, now) /\ ~Mismatch(given)
               /\ SignatureWrong(given)) =>
              last.status = 401 /\ last.error = "Invalid client signature"

\* A submission with an expired token for another wallet and a signature of
\* the wrong key has been answered with the token error.
C10_Witness ==
  /\ Answered /\ ~FieldMissing(given)
  /\ ServerToken(given.sessionToken) /\ now >= given.sessionToken.exp
  /\ Mismatch(given) /\ SignatureWrong(given)
  /\ last.error = "Invalid or expired session token"

\* ---------------------------------------------------------------------
\* The single registration of SpecChecks has been answered.
RegisterAnswered == last.op = "register"

\* The request gets as far as the decoding of its signature and wallet.
ReachesSignatureCheck(req, t) ==
  IF req.op = "score"
  THEN ~FieldMissing(req) /\ ~TokenRefused(req, t) /\ ~Mismatch(req)
  ELSE /\ req.op = "register" /\ req.wallet # "" /\ ~req.skip
       /\ req.signature.kind # "empty" /\ req.message # ""

\* The wallet or the signature is not base-58, or not of 32 / 64 bytes.
Undecodable(req) ==
  \/ req.wallet \in {MalformedWallet, ShortWallet}
  \/ req.signature.kind \in {"malformed", "short"}

\* The signature error of the endpoint.
InvalidSignatureError(op) ==
  IF op = "score" THEN "Invalid client signature" ELSE "Invalid signature"

\* C11: a submission or a registration with proof whose signature or wallet
\* cannot be decoded is answered with the InvalidSignature error, never with
\* status 500, and creates no record.
C11_DecodeFailureIsInvalidSignature ==
  (ReachesSignatureCheck(given, now) /\ Undecodable(given)) =>
    /\ inflight[1].pc = "idle" /\ inflight[3].pc = "idle"
    /\ scores = <<>> /\ users \in CheckStores
    /\ (Answered \/ RegisterAnswered) =>
         /\ last.status # 500
         /\ last.error = InvalidSignatureError(given.op)

\* ---------------------------------------------------------------------
\* The signature decodes and is not the wallet's over the message.
SignatureRejected(req) ==
  /\ req.wallet \in Wallets /\ req.signature.kind = "ed25519"
  /\ req.signature # Sign(req.wallet, req.message)

\* C12: a request that fails authentication (invalid signature, token that
\* does not match, expired or invalid token) is answered with status 401, by
\* POST score and by POST register alike.
C12_AuthFailuresAre401 ==
  /\ (Answered /\ given.op = "score" /\ ~FieldMissing(given)
        /\ (TokenRefused(given, now) \/ Mismatch(given) \/ SignatureRejected(given))) =>
       last.status = 401
  /\ (RegisterAnswered /\ given.op = "register" /\ ReachesSignatureCheck(given, now)
        /\ SignatureRejected(given)) =>
       last.status = 401

\* ---------------------------------------------------------------------
\* The registration carries a signature of its wallet over its message.
ProofValid(req) ==
  /\ req.signature.kind # "empty" /\ req.message # ""
  /\ req.wallet \in Wallets /\ req.signature = Sign(req.wallet, req.message)

\* The User a registration creates.
UserOf(req) == [wallet |-> req.wallet, name |-> req.name]

\* A registration without skip and without a valid proof fails and leaves
\* the Users as they were; with skip and a wallet it is never turned away by
\* the checks, whatever signature it carries; Users are created only by
\* requests with skip or a valid proof.
RegisterGate ==
  /\ [](/\ (given.op = "register" /\ ~given.skip /\ ~ProofValid(given)) =>
             /\ inflight[1].pc = "idle" /\ users \in CheckStores
             /\ RegisterAnswered => last.status \in {400, 500}
        /\ (given.op = "register" /\ given.skip /\ given.wallet # "") =>
             RegisterChecks(given) = Pending)
  /\ [][users' # users =>
          \E s \in RegSlots :
            /\ inflight[s].pc = "r_save" /\ inflight'[s].pc = "idle"
            /\ inflight[s].req.skip \/ ProofValid(inflight[s].req)
            /\ users' = Append(users, UserOf(inflight[s].req))]_vars

\* C13 as stated: a registration without skip creates a User only with a
\* non-empty signature and message that verify, and otherwise fails leaving
\* the Users unchanged; a registration with skip and a non-empty wallet
\* creates the User when none exists, without any signature verification.
C13_RegisterCreates ==
  /\ RegisterGate
  /\ [][\A s \in RegSlots :
          (/\ inflight[s].pc = "r_save" /\ inflight'[s].pc = "idle"
           /\ inflight[s].req.skip /\ ~HasUser(users, inflight[s].req.wallet)) =>
             /\ users' = Append(users, UserOf(inflight[s].req))
             /\ last'.status = 200]_vars

\* C13 as amended: ... creates the User when none exists and the name has at
\* most 10 characters; with a longer name the save fails and nothing is
\* stored.
C13_RegisterCreatesBoundedName ==
  /\ RegisterGate
  /\ [][\A s \in RegSlots :
          (/\ inflight[s].pc = "r_save" /\ inflight'[s].pc = "idle"
           /\ inflight[s].req.skip /\ ~HasUser(users, inflight[s].req.wallet)) =>
             IF Len(inflight[s].req.name) <= 10
             THEN /\ users' = Append(users, UserOf(inflight[s].req))
                  /\ last'.status = 200
             ELSE /\ users' = users
                  /\ last'.status = 500]_vars

\* A registration with skip and a signature that is not the wallet's has
\* created its User.
C13_Witness ==
  /\ given.op = "register" /\ given.skip
  /\ given.signature.kind = "ed25519" /\ ~ProofValid(given)
  /\ RegisterAnswered /\ last.status = 200
  /\ users = <<UserOf(given)>>

\* ---------------------------------------------------------------------
\* C14: a step that answers a register or score request with an error
\* (400, 401, 500) changes neither collection, and the only steps that change
\* a collection are the final steps of requests answered with success, which
\* append one complete User or one complete ScoreRecord: a request answered
\* with an error has written nothing.
C14_ErrorsWriteNothing ==
  [][/\ ((last' # last \/ \E s \in Slots : inflight[s].pc # "idle" /\ inflight'[s].pc = "idle")
           /\ last'.status >= 400) =>
          users' = users /\ scores' = scores
     /\ (users' # users \/ scores' # scores) =>
          /\ last'.status = 200
          /\ \E s \in Slots :
               /\ inflight'[s].pc = "idle"
               /\ \/ /\ inflight[s].pc = "r_save"
                     /\ users' = Append(users, UserOf(inflight[s].req))
                     /\ scores' = scores
                  \/ /\ inflight[s].pc = "s_save"
                     /\ scores' = Append(scores,
                          [wallet |-> inflight[s].req.wallet, game |-> inflight[s].req.game,
                           score |-> inflight[s].req.score, name |-> inflight[s].userName,
                           timestamp |-> inflight[s].timestamp])
                     /\ users' = users]_vars

\* A registration that passed its checks was answered 500 by a failed save,
\* and the Users are as they were.
C14_Witness ==
  /\ given.op = "register" /\ given.skip /\ given.name = LongName
  /\ RegisterAnswered /\ last.status = 500
  /\ users \in CheckStores

\* ---------------------------------------------------------------------
\* C15: POST session answers every request with a non-empty wallet and game
\* with a token, registered or not and without any proof, and changes no
\* collection and no handler; the token carries exactly that wallet and game,
\* and a submission presenting it passes the checks exactly when it names
\* that wallet and game and the clock is before the token's expiry.
C15_SessionToken ==
  /\ [](last.op = "session" =>
          IF given.wallet # "" /\ given.game # ""
          THEN /\ last.status = 200
               /\ ServerToken(last.token)
               /\ last.token.wallet = given.wallet /\ last.token.game = given.game
               /\ \A req \in TokenScoreRequests :
                    given.wallet \in Wallets =>
                      (ScoreChecks(req, now) = Pending <=>
                         (req.game = given.game /\ now < last.token.iat + 600))
          ELSE last.status = 400 /\ last.token = NoToken)
  /\ [](inflight[3].pc # "idle" =>
          /\ inflight[3].req.sessionToken.wallet = given.wallet
          /\ inflight[3].req.sessionToken.game = given.game
          /\ inflight[3].req.wallet = given.wallet
          /\ inflight[3].req.game = given.game)
  /\ [][(last.op = "none" /\ last'.op = "session") =>
          UNCHANGED <<now, users, scores, inflight, prov>>]_vars

\* A token issued to a wallet that is not registered has been accepted in a
\* submission.
C15_Witness ==
  /\ given.wallet = "W2" /\ ~HasUser(users, "W2")
  /\ last.op = "session" /\ last.status = 200
  /\ inflight[3].pc = "s_find"
  /\ inflight[3].req.sessionToken = last.token

\* ---------------------------------------------------------------------
\* The stored records of game g, and of wallet w in game g.
OfGame(g) == {i \in 1..Len(scores) : scores[i].game = g}
OfWalletGame(w, g) == {i \in OfGame(g) : scores[i].wallet = w}

\* C16: the leaderboard of g has only stored records of g, none more often
\* than it is stored, in descending order of score, min(50, number of
\* records of g) of them, and its p-th score is the p-th highest score of g;
\* bestscore of (w, g) is null when no record of (w, g) is stored and else a
\* stored record of (w, g) with the maximal score. Queries change no
\* collection.
C16_QueriesCorrect ==
  /\ [](/\ (last.op = "leaderboard" /\ last.status = 200) =>
             LET r == last.scores
                 g == given.game
             IN  /\ Len(r) <= 50
                 /\ Len(r) = Min(Cardinality(OfGame(g)), 50)
                 /\ \A p \in 1..Len(r) :
                      /\ r[p].game = g
                      /\ Cardinality({q \in 1..Len(r) : r[q] = r[p]})
                           <= Cardinality({i \in OfGame(g) : scores[i] = r[p]})
                      /\ p > 1 => r[p - 1].score >= r[p].score
                      /\ Cardinality({i \in OfGame(g) : scores[i].score > r[p].score}) < p
                      /\ Cardinality({i \in OfGame(g) : scores[i].score >= r[p].score}) >= p
        /\ (last.op = "bestscore" /\ last.status = 200) =>
             LET M == OfWalletGame(given.wallet, given.game)
             IN  IF M = {} THEN last.best = NoScore
                 ELSE /\ \E i \in M : scores[i] = last.best
                      /\ \A i \in M : scores[i].score <= last.best.score
        /\ (last.op = "leaderboard" /\ given.game # "") => last.status = 200
        /\ (last.op = "bestscore" /\ given.wallet # "" /\ given.game # "") =>
             last.status = 200)
  /\ [][scores' = scores /\ users' = users]_vars

\* A leaderboard was cut at 50 between two records of equal score.
C16_Witness ==
  /\ last.op = "leaderboard" /\ last.status = 200
  /\ Len(last.scores) = 50
  /\ Cardinality(OfGame(given.game)) > 50
  /\ \E i \in OfGame(given.game) :
       /\ scores[i].score = last.scores[50].score
       /\ Cardinality({j \in OfGame(given.game) : scores[j].score >= scores[i].score}) > 50

\* ---------------------------------------------------------------------
\* C17 as stated: the timestamp of every stored ScoreRecord lies strictly
\* before the expiresAt of the token that authorized it.
C17_WrittenBeforeExpiry ==
  \A i \in 1..Len(scores) :
    i <= Len(prov) => scores[i].timestamp < prov[i].token.exp

\* C17 as amended: the token that authorized a stored ScoreRecord was verified
\* strictly before its expiresAt, and the record's timestamp is the time the
\* record was constructed after the User lookup: not earlier than that
\* verification, and possibly at or after expiresAt.
C17_VerifiedBeforeExpiry ==
  /\ Len(prov) = Len(scores)
  /\ \A i \in 1..Len(scores) :
       /\ prov[i].verifiedAt < prov[i].token.exp
       /\ prov[i].verifiedAt <= scores[i].timestamp
       /\ scores[i].timestamp <= now

\* A record whose token expired while its handler awaited the User lookup.
C17_Witness ==
  \E i \in 1..Len(scores) :
    /\ i <= Len(prov)
    /\ prov[i].verifiedAt < prov[i].token.exp
    /\ scores[i].timestamp >= prov[i].token.exp

\* ---------------------------------------------------------------------
\* C18 as stated: the name of every ScoreRecord is, at the moment the record
\* is written, the name of the User stored for its wallet, and "" only if
\* none (or one with an empty name) is stored at that moment.
C18_NameCurrentAtWrite ==
  [][\A s \in ScoreSlots :
       (inflight[s].pc = "s_save" /\ inflight'[s].pc = "idle") =>
          scores'[Len(scores')].name = StoredName(users, inflight[s].req.wallet)]_vars

\* C18 as amended: the name of every ScoreRecord is the name of the User that
\* was stored for its wallet when the handler's lookup read it, "" if none
\* was; a registration completing between the lookup and the write leaves
\* the record with "" although a User is then stored. As stored names never
\* change, a record's name is at all times "" or the name stored for its
\* wallet.
C18_NameReadAtLookup ==
  /\ [](/\ \A i \in 1..Len(scores) :
             scores[i].name \in {"", StoredName(users, scores[i].wallet)}
        /\ \A s \in ScoreSlots :
             inflight[s].pc = "s_save" =>
               inflight[s].userName \in {"", StoredName(users, inflight[s].req.wallet)})
  /\ [][\A s \in ScoreSlots :
          /\ (inflight[s].pc = "s_find" /\ inflight'[s].pc = "s_save") =>
               inflight'[s].userName = StoredName(users, inflight[s].req.wallet)
          /\ (inflight[s].pc = "s_save" /\ inflight'[s].pc = "idle") =>
               /\ scores'[Len(scores')].name = inflight[s].userName
               /\ scores'[Len(scores')].wallet = inflight[s].req.wallet]_vars

\* A submission looked its wallet up before the wallet's registration was
\* saved and is about to write its record.
C18_Witness ==
  /\ inflight[3].pc = "s_save"
  /\ inflight[3].userName = ""
  /\ StoredName(users, inflight[3].req.wallet) # ""

\* ---------------------------------------------------------------------
\* C19: a submission is answered 400 MissingFields, and writes nothing,
\* exactly when one of its six fields is absent or (the five strings) empty;
\* a score of 0 is present: a submission with score 0 and all else valid
\* passes the checks and, once answered, has stored one record with score 0.
C19_MissingFieldsExactly ==
  given.op = "score" =>
    /\ FieldMissing(given) => ~Accepted /\ scores = <<>>
    /\ Answered =>
         (FieldMissing(given) <=>
            (last.status = 400 /\ last.error = "Missing required fields"))
    /\ Answered => (last.status = 400 <=> FieldMissing(given))
    /\ (ValidSubmission(given, now) /\ given.score = 0 /\ Answered) =>
         /\ last.status = 200
         /\ Len(scores) = 1
         /\ scores[1].score = 0
         /\ scores[1].wallet = given.wallet /\ scores[1].game = given.game

\* A submission with score 0 has been stored.
C19_Witness ==
  /\ given.op = "score" /\ given.hasScore /\ given.score = 0
  /\ Answered /\ last.status = 200
  /\ Len(scores) = 1 /\ scores[1].score = 0

====
